---- MODULE Spec2Model ----
(***************************************************************************)
(* Selling-area stock engine of AMAShyp/sellingarea.                       *)
(*                                                                         *)
(* The state is the relational store shared by every user session: the     *)
(* inventory table (batches), the shelf table (shelf stock), the           *)
(* shelfentries table (audit log), the shelf_shortage table, plus the      *)
(* position of every session inside the handler it is running.  Every      *)
(* action is one committed statement (DatabaseManager._execute commits     *)
(* after each command) or one committed transaction                        *)
(* (ShelfHandler.transfer_from_inventory), so every state of the model is  *)
(* a state another session can observe.                                    *)
(*                                                                         *)
(* One item is modelled; every table row below belongs to it.              *)
(***************************************************************************)
EXTENDS Integers, Sequences, FiniteSets, Bags, TLC

VARIABLES inventory, shelf, entries, shortage, sess

vars == <<inventory, shelf, entries, shortage, sess>>

\* -------------------------------------------------------------------------
\* Bounds of the model
\* -------------------------------------------------------------------------
\* Largest initial batch quantity and largest requested quantity.
MaxQty == 2

\* Operations started in one run, over all sessions (a retry counts as one).
MaxOps == 2

Sessions == {"s1", "s2"}

\* -------------------------------------------------------------------------
\* Data
\* -------------------------------------------------------------------------
\* CURRENT_DATE of the declaration inserts; expiration dates are day numbers.
Today == 1

\* Inventory rows.  A row is keyed by (item, expiration, cost, storage
\* location); b1 and b3 are the same cost layer kept at two storage locations.
Batches == {"b1", "b2", "b3"}

BatchExp(b) == IF b = "b2" THEN 2 ELSE 1

BatchCost(b) == IF b = "b2" THEN 1 ELSE IF b \in {"b1", "b3"} THEN 2 ELSE 0

BatchStore(b) ==
    IF b = "b3" THEN "W2"
    ELSE IF b \in {"b1", "b2"} THEN "W1"
    ELSE IF b \in {"ShelfReturn", "ShelfReturn2"} THEN "ShelfReturn"
    ELSE "BulkReturn"

\* Cost layers (expiration, cost) a transfer can name: those of the inventory
\* rows and the layer (CURRENT_DATE, 0) of declared shelf rows.
Layers == {[exp |-> 1, cost |-> 2], [exp |-> 2, cost |-> 1], [exp |-> Today, cost |-> 0]}

Locs == {"A", "B"}

\* Destination of the transfers: the shelf being refilled.  No handler treats a
\* locid specially (it is only compared for equality), so one destination
\* stands for any; the other shelf is written by the declarations.
DestLocs == {"A"}

ShelfKeys == [exp : {1, 2}, cost : {0, 1, 2}, loc : Locs]

\* Quantities a caller can pass: nothing in the handlers rejects 0 or a
\* negative number (bulk_transfer.py reads the CSV column with astype(int)).
QtyInputs == (0 - 1) .. MaxQty

Min(a, b) == IF a <= b THEN a ELSE b

RECURSIVE SumSet(_, _)
\* Sum of f[x] over the finite set S.
SumSet(f, S) ==
    IF S = {} THEN 0
    ELSE LET x == CHOOSE y \in S : TRUE IN f[x] + SumSet(f, S \ {x})

RECURSIVE SumSeq(_)
SumSeq(q) == IF q = <<>> THEN 0 ELSE Head(q) + SumSeq(Tail(q))

\* -------------------------------------------------------------------------
\* Store statements
\* -------------------------------------------------------------------------
\* Rows of the inventory table of one cost layer (the WHERE clause
\* itemid=%s AND expirationdate=%s AND cost_per_unit=%s).
LayerRows(exp, cost) ==
    {b \in DOMAIN inventory : BatchExp(b) = exp /\ BatchCost(b) = cost}

\* Rows the guarded decrement matches: ... AND quantity >= %s.
GuardedRows(exp, cost, qty) ==
    {b \in LayerRows(exp, cost) : inventory[b] >= qty}

\* UPDATE inventory SET quantity = quantity - qty WHERE <layer> AND quantity >= qty
DecrementLayer(inv, exp, cost, qty) ==
    [b \in DOMAIN inv |->
        IF BatchExp(b) = exp /\ BatchCost(b) = cost /\ inv[b] >= qty
        THEN inv[b] - qty ELSE inv[b]]

\* INSERT INTO shelf ... ON CONFLICT (itemid, expirationdate, cost_per_unit, locid)
\* DO UPDATE SET quantity = shelf.quantity + EXCLUDED.quantity
UpsertOverwrite(sh, k, qty) ==
    [sh EXCEPT ![k] = <<qty>>]

Upsert(sh, k, qty) ==
    [sh EXCEPT ![k] = IF @ = <<>> THEN <<qty>> ELSE <<Head(@) + qty>> \o Tail(@)]

\* INSERT INTO shelfentries (itemid, expirationdate, quantity, createdby, locid)
AuditRow(s, exp, qty, loc) == [exp |-> exp, qty |-> qty, by |-> s, loc |-> loc]

AppendEntry(log, row) == log (+) SetToBag({row})

ShelfQty(k) == SumSeq(shelf[k])

\* -------------------------------------------------------------------------
\* Sessions
\* -------------------------------------------------------------------------
\* What a session holds between two statements.  The fields from status on
\* record what the running (or last) operation did, for the properties.
IdleSession ==
    [pc |-> "idle", op |-> "none", exp |-> 0, cost |-> 0, qty |-> 0, loc |-> "A",
     ret |-> "idle", newQty |-> 0, need |-> 0, exists |-> FALSE,
     snap |-> <<>>, idx |-> 0, left |-> 0, request |-> 0, plan |-> <<>>,
     allocDone |-> FALSE, sq |-> <<>>,
     status |-> "none", guardFailed |-> FALSE,
     invDec |-> 0, shelfInc |-> 0, nAudit |-> 0, merged |-> "none",
     retry |-> FALSE, prevInc |-> 0, startQty |-> 0, nOps |-> 0,
     attempts |-> 0, storeFailed |-> FALSE, paid |-> 0,
     glob |-> 0, thr |-> 0, avg |-> 0, total |-> 0, lowRows |-> {},
     flagged |-> FALSE, needed |-> 0, raised |-> FALSE,
     days |-> 0, red |-> 0, orange |-> 0, green |-> 0,
     shown |-> FALSE, color |-> "unset",
     life |-> 0, eligible |-> FALSE, missing |-> FALSE,
     tgt |-> "A", shelfQty |-> 0, shelfDec |-> 0, tgtInc |-> 0, invAdd |-> 0]

TransferOps == {"transfer_from_inventory", "move_layer"}

FirstPc(op) == IF op = "transfer_from_inventory" THEN "tfi_txn" ELSE "ml_dec"

\* Quantity the named layer holds when the request is issued.
LayerQty(exp, cost) == SumSet(inventory, LayerRows(exp, cost))

Started(s, op, l, qty, loc, isRetry, prev) ==
    [IdleSession EXCEPT
        !.pc = FirstPc(op), !.op = op, !.exp = l.exp, !.cost = l.cost,
        !.qty = qty, !.loc = loc, !.status = "running",
        !.retry = isRetry, !.prevInc = prev,
        !.startQty = LayerQty(l.exp, l.cost),
        !.nOps = sess[s].nOps + 1]

\* Operations started so far.
OpsStarted == SumSet([s \in Sessions |-> sess[s].nOps], Sessions)

\* The batches as received: two full cost layers, the first of which may have
\* a second row at another storage location.  Smaller quantities are reached
\* by the transfers themselves.
InitInventory ==
    {inv \in [Batches -> 0 .. MaxQty] :
        inv["b1"] = MaxQty /\ inv["b2"] = MaxQty /\ inv["b3"] <= 1}

Init ==
    /\ inventory \in InitInventory
    /\ shelf = [k \in ShelfKeys |-> <<>>]
    /\ entries = EmptyBag
    /\ shortage = <<>>
    /\ sess = [s \in Sessions |-> IdleSession]

\* A user starts a transfer of one cost layer to a shelf location.
Begin(s) ==
    /\ sess[s].pc = "idle"
    /\ OpsStarted < MaxOps
    /\ \E op \in TransferOps, l \in Layers, qty \in QtyInputs, loc \in DestLocs :
           sess' = [sess EXCEPT ![s] = Started(s, op, l, qty, loc, FALSE, 0)]
    /\ UNCHANGED <<inventory, shelf, entries, shortage>>

\* The user runs the same transfer again after an attempt that raised or whose
\* guarded decrement matched no row.
Retry(s) ==
    /\ sess[s].pc = "idle"
    /\ OpsStarted < MaxOps
    /\ sess[s].op \in TransferOps
    /\ sess[s].guardFailed \/ sess[s].status = "failed"
    /\ ~sess[s].retry
    /\ sess' = [sess EXCEPT ![s] =
                   Started(s, sess[s].op, [exp |-> sess[s].exp, cost |-> sess[s].cost],
                           sess[s].qty, sess[s].loc, TRUE, sess[s].shelfInc)]
    /\ UNCHANGED <<inventory, shelf, entries, shortage>>

\* ShelfHandler.transfer_from_inventory: one transaction.  SELECT ... FOR UPDATE
\* of the layer, fetchone() of whichever row comes first, the check, the guarded
\* UPDATE of every row of the layer, add_to_shelf on the same cursor, commit.
\* A raise inside `with self.conn` rolls everything back.
TfiTxn(s) ==
    LET me == sess[s]
        k == [exp |-> me.exp, cost |-> me.cost, loc |-> me.loc]
        rows == LayerRows(me.exp, me.cost)
        hit == GuardedRows(me.exp, me.cost, me.qty)
    IN
    /\ me.pc = "tfi_txn"
    /\ \E cur \in (IF rows = {} THEN {0} ELSE {inventory[b] : b \in rows}) :
          IF cur < me.qty
          THEN \* raise ValueError("Not enough inventory ...")
               /\ sess' = [sess EXCEPT ![s].pc = "idle", ![s].status = "failed"]
               /\ UNCHANGED <<inventory, shelf, entries, shortage>>
          ELSE IF hit = {}
          THEN \* cur.rowcount == 0: raise ValueError("Inventory update failed ...")
               /\ sess' = [sess EXCEPT ![s].pc = "idle", ![s].status = "failed",
                                       ![s].guardFailed = TRUE]
               /\ UNCHANGED <<inventory, shelf, entries, shortage>>
          ELSE /\ inventory' = DecrementLayer(inventory, me.exp, me.cost, me.qty)
               /\ shelf' = Upsert(shelf, k, me.qty)
               /\ entries' = AppendEntry(entries, AuditRow(s, me.exp, me.qty, me.loc))
               /\ shortage' = shortage
               /\ sess' = [sess EXCEPT ![s].pc = "idle", ![s].status = "ok",
                                       ![s].invDec = me.qty * Cardinality(hit),
                                       ![s].shelfInc = me.qty,
                                       ![s].nAudit = 1,
                                       ![s].merged = IF shelf[k] = <<>> THEN "insert" ELSE "merge"]

\* BarcodeShelfHandler.move_layer, first execute_command: the guarded UPDATE,
\* committed on its own.  Its row count is not read.
MlDec(s) ==
    LET me == sess[s]
        hit == GuardedRows(me.exp, me.cost, me.qty)
    IN
    /\ me.pc = "ml_dec"
    /\ inventory' = DecrementLayer(inventory, me.exp, me.cost, me.qty)
    /\ sess' = [sess EXCEPT ![s].pc = "ml_upsert",
                            ![s].guardFailed = (@ \/ hit = {}),
                            ![s].invDec = @ + me.qty * Cardinality(hit)]
    /\ UNCHANGED <<shelf, entries, shortage>>

\* move_layer, second execute_command: the shelf upsert, committed on its own.
MlUpsert(s) ==
    LET me == sess[s]
        k == [exp |-> me.exp, cost |-> me.cost, loc |-> me.loc]
    IN
    /\ me.pc = "ml_upsert"
    /\ shelf' = Upsert(shelf, k, me.qty)
    /\ sess' = [sess EXCEPT ![s].pc = "ml_audit",
                            ![s].shelfInc = @ + me.qty,
                            ![s].merged = IF shelf[k] = <<>> THEN "insert" ELSE "merge"]
    /\ UNCHANGED <<inventory, entries, shortage>>

\* -------------------------------------------------------------------------
\* Allocation loops
\* -------------------------------------------------------------------------
\* ORDER BY expirationdate ASC, cost_per_unit ASC
KeyLeq(a, b) == a.exp < b.exp \/ (a.exp = b.exp /\ a.cost <= b.cost)

KeyLess(a, b) == a.exp < b.exp \/ (a.exp = b.exp /\ a.cost < b.cost)

BatchRecord(b) == [exp |-> BatchExp(b), cost |-> BatchCost(b), qty |-> inventory[b]]

\* subtract_inventory's SELECT: one entry per inventory row with quantity > 0,
\* in any order the ORDER BY allows (rows of one layer tie).
BatchSnapshots ==
    LET rows == {b \in DOMAIN inventory : inventory[b] > 0}
        n == Cardinality(rows)
        ordered == {g \in [1 .. n -> rows] :
                       \A i, j \in 1 .. n :
                           i < j => g[i] # g[j] /\ KeyLeq(BatchRecord(g[i]), BatchRecord(g[j]))}
    IN {[i \in 1 .. n |-> BatchRecord(g[i])] : g \in ordered}

\* The layers in (expiration, cost) order.
LayerOrder == <<[exp |-> Today, cost |-> 0], [exp |-> 1, cost |-> 2], [exp |-> 2, cost |-> 1]>>

HasStock(l) == LayerQty(l.exp, l.cost) > 0

\* get_layers(barcode): the cost layers of the item that hold stock, one entry
\* per (expiration, cost) with the summed quantity, earliest expiry first.
LayerSnapshot ==
    LET held == SelectSeq(LayerOrder, HasStock)
    IN [i \in 1 .. Len(held) |->
           [exp |-> held[i].exp, cost |-> held[i].cost,
            qty |-> LayerQty(held[i].exp, held[i].cost)]]

RECURSIVE InsertByCost(_, _)
\* Insert l after the entries whose cost is not greater (sorted() is stable).
InsertByCost(q, l) ==
    IF q = <<>> THEN <<l>>
    ELSE IF Head(q).cost <= l.cost THEN <<Head(q)>> \o InsertByCost(Tail(q), l)
    ELSE <<l>> \o q

RECURSIVE SortByCost(_)
\* sorted(layers, key=lambda l: l["cost"])
SortByCost(q) ==
    IF q = <<>> THEN <<>>
    ELSE InsertByCost(SortByCost(SubSeq(q, 1, Len(q) - 1)), q[Len(q)])

RECURSIVE SumTakes(_)
SumTakes(plan) == IF plan = <<>> THEN 0 ELSE Head(plan).take + SumTakes(Tail(plan))

RECURSIVE SnapTotal(_)
SnapTotal(snap) == IF snap = <<>> THEN 0 ELSE Head(snap).qty + SnapTotal(Tail(snap))

\* take = min(left, row.quantity)
TakeAll(left, q) == q

TakeAmount(left, q) == Min(left, q)

PlanRow(l, take) == [exp |-> l.exp, cost |-> l.cost, take |-> take]

\* The head of the `for layer in sorted(...)` loop of the bulk and low-stock
\* pages: stop when remaining == 0 or the layers are exhausted, else compute
\* take and enter move_layer for the next layer.
LoopDispatch(me) ==
    IF me.idx > Len(me.snap) \/ me.left = 0
    THEN [me EXCEPT !.pc = "idle", !.status = "ok", !.allocDone = TRUE]
    ELSE LET l == me.snap[me.idx]
             take == TakeAmount(me.left, l.qty)
         IN [me EXCEPT !.pc = "ml_dec", !.ret = "loop",
                       !.exp = l.exp, !.cost = l.cost, !.qty = take,
                       !.plan = Append(@, PlanRow(l, take)),
                       !.left = @ - take, !.idx = @ + 1]

\* move_layer, third execute_command: the shelfentries insert; then it returns
\* to its caller: the page, or the loop over the layers.
MlAudit(s) ==
    LET me == sess[s]
        logged == [me EXCEPT !.nAudit = @ + 1]
    IN
    /\ me.pc = "ml_audit"
    /\ entries' = AppendEntry(entries, AuditRow(s, me.exp, me.qty, me.loc))
    /\ sess' = [sess EXCEPT ![s] =
                   IF me.ret = "loop" THEN LoopDispatch(logged)
                   ELSE [logged EXCEPT !.pc = "idle", !.status = "ok"]]
    /\ UNCHANGED <<inventory, shelf, shortage>>

\* -------------------------------------------------------------------------
\* Declare page (2_Declare.py)
\* -------------------------------------------------------------------------
ShelfRowsAt(loc) == {k \in ShelfKeys : k.loc = loc /\ shelf[k] # <<>>}

\* get_shelf_entries: SUM(quantity) ... GROUP BY locid
ShelfQtyAt(loc) == SumSet([k \in ShelfKeys |-> ShelfQty(k)], {k \in ShelfKeys : k.loc = loc})

DeclaredLocs == {loc \in Locs : ShelfRowsAt(loc) # {}}

\* The run of the page in which Confirm is pressed: get_shelf_entries, the
\* location (typed when the item has no shelf row, else one of its locations),
\* the declared quantity, diff = new_qty - prev_qty.
DeclareBegin(s) ==
    /\ sess[s].pc = "idle"
    /\ OpsStarted < MaxOps
    /\ \E loc \in (IF DeclaredLocs = {} THEN Locs ELSE DeclaredLocs), new \in 0 .. MaxQty :
          LET diff == new - ShelfQtyAt(loc) IN
          sess' = [sess EXCEPT ![s] =
                      [IdleSession EXCEPT
                          !.pc = IF diff > 0 THEN "dc_fetch" ELSE "set_read",
                          !.op = "declare", !.loc = loc, !.newQty = new,
                          !.request = diff, !.left = diff, !.status = "running",
                          !.nOps = sess[s].nOps + 1]]
    /\ UNCHANGED <<inventory, shelf, entries, shortage>>

\* subtract_inventory: the SELECT of the batches.
DcFetch(s) ==
    /\ sess[s].pc = "dc_fetch"
    /\ \E snap \in BatchSnapshots :
          sess' = [sess EXCEPT ![s].snap = snap, ![s].idx = 1,
                               ![s].allocDone = (snap = <<>>),
                               ![s].pc = IF snap = <<>> THEN "set_read" ELSE "dc_update"]
    /\ UNCHANGED <<inventory, shelf, entries, shortage>>

\* subtract_inventory: one turn of the loop, the guarded UPDATE of the row's
\* layer (committed on its own), left -= take, break when left <= 0.
DcUpdate(s) ==
    LET me == sess[s]
        row == me.snap[me.idx]
        take == TakeAmount(me.left, row.qty)
        hit == GuardedRows(row.exp, row.cost, take)
        done == me.left - take <= 0 \/ me.idx = Len(me.snap)
    IN
    /\ me.pc = "dc_update"
    /\ inventory' = DecrementLayer(inventory, row.exp, row.cost, take)
    /\ sess' = [sess EXCEPT ![s].plan = Append(@, PlanRow(row, take)),
                            ![s].left = @ - take, ![s].idx = @ + 1,
                            ![s].guardFailed = (@ \/ hit = {}),
                            ![s].invDec = @ + take * Cardinality(hit),
                            ![s].allocDone = done,
                            ![s].pc = IF done THEN "set_read" ELSE "dc_update"]
    /\ UNCHANGED <<shelf, entries, shortage>>

\* set_shelf_quantity / update_shelf_quantity: SELECT quantity FROM shelf
\* WHERE itemid=%s AND locid=%s
ShelfRead(me, to) == [me EXCEPT !.pc = to, !.exists = (ShelfRowsAt(me.loc) # {})]

SetRead(s) ==
    /\ sess[s].pc = "set_read"
    /\ sess' = [sess EXCEPT ![s] = ShelfRead(sess[s], "set_write")]
    /\ UNCHANGED <<inventory, shelf, entries, shortage>>

\* The unique constraint shelf_unique_layer on (itemid, expirationdate,
\* cost_per_unit, locid) rejects a second row with the key.
NoConstraint(sh, k) == FALSE

UniqueViolation(sh, k) == sh[k] # <<>>

DeclaredKey(loc) == [exp |-> Today, cost |-> 0, loc |-> loc]

\* INSERT INTO shelf (...) VALUES (%s, CURRENT_DATE, %s, 0, %s)
InsertShelfRow(sh, k, qty) == [sh EXCEPT ![k] = Append(@, qty)]

\* UPDATE shelf SET quantity=%s WHERE itemid=%s AND locid=%s
SetQtyAt(sh, loc, qty) ==
    [k \in DOMAIN sh |-> IF k.loc = loc THEN [i \in DOMAIN sh[k] |-> qty] ELSE sh[k]]

\* DELETE FROM shelf WHERE itemid=%s AND locid=%s
DeleteAt(sh, loc) == [k \in DOMAIN sh |-> IF k.loc = loc THEN <<>> ELSE sh[k]]

\* set_shelf_quantity: the INSERT or the UPDATE chosen by the earlier SELECT.
SetWrite(s) ==
    LET me == sess[s]
        k == DeclaredKey(me.loc)
    IN
    /\ me.pc = "set_write"
    /\ IF me.exists
       THEN /\ shelf' = SetQtyAt(shelf, me.loc, me.newQty)
            /\ sess' = [sess EXCEPT ![s].pc = "idle", ![s].status = "ok"]
       ELSE IF UniqueViolation(shelf, k)
       THEN /\ shelf' = shelf
            /\ sess' = [sess EXCEPT ![s].pc = "idle", ![s].status = "failed"]
       ELSE /\ shelf' = InsertShelfRow(shelf, k, me.newQty)
            /\ sess' = [sess EXCEPT ![s].pc = "idle", ![s].status = "ok"]
    /\ UNCHANGED <<inventory, entries, shortage>>

\* -------------------------------------------------------------------------
\* Shelf transfer page (4_Shelf_Transfer.py): update_shelf_quantity
\* -------------------------------------------------------------------------
\* A call of update_shelf_quantity(itemid, locid, new_qty); the page computes
\* new_qty from the quantities it rendered.
UsqBegin(s) ==
    /\ sess[s].pc = "idle"
    /\ OpsStarted < MaxOps
    /\ \E loc \in Locs, new \in 0 .. MaxQty :
          sess' = [sess EXCEPT ![s] =
                      [IdleSession EXCEPT
                          !.pc = "usq_read", !.op = "update_shelf_quantity",
                          !.loc = loc, !.newQty = new, !.status = "running",
                          !.nOps = sess[s].nOps + 1]]
    /\ UNCHANGED <<inventory, shelf, entries, shortage>>

UsqRead(s) ==
    /\ sess[s].pc = "usq_read"
    /\ sess' = [sess EXCEPT ![s] = ShelfRead(sess[s], "usq_write")]
    /\ UNCHANGED <<inventory, shelf, entries, shortage>>

UsqWrite(s) ==
    LET me == sess[s]
        k == DeclaredKey(me.loc)
    IN
    /\ me.pc = "usq_write"
    /\ IF ~me.exists /\ me.newQty > 0
       THEN IF UniqueViolation(shelf, k)
            THEN /\ shelf' = shelf
                 /\ sess' = [sess EXCEPT ![s].pc = "idle", ![s].status = "failed"]
            ELSE /\ shelf' = InsertShelfRow(shelf, k, me.newQty)
                 /\ sess' = [sess EXCEPT ![s].pc = "idle", ![s].status = "ok"]
       ELSE /\ shelf' = IF ~me.exists THEN shelf
                        ELSE IF me.newQty > 0 THEN SetQtyAt(shelf, me.loc, me.newQty)
                        ELSE DeleteAt(shelf, me.loc)
            /\ sess' = [sess EXCEPT ![s].pc = "idle", ![s].status = "ok"]
    /\ UNCHANGED <<inventory, entries, shortage>>

\* -------------------------------------------------------------------------
\* Bulk transfer (bulk_transfer.py) and low-stock transfer (2_transfer_low_stock.py)
\* -------------------------------------------------------------------------
LoopOps == {"bulk_transfer", "transfer_low_stock"}

AllocOps == LoopOps \cup {"declare"}

\* Quantities of the low-stock page's number_input (min_value=1).
LowStockInputs == 1 .. MaxQty

\* The job a page hands to its confirm handler.  The layers were read when the
\* page was rendered (layers_for_barcode, cached).  The bulk page keeps the
\* layers of the chosen expiration and refuses qty > their stock; the
\* low-stock page keeps them all and refuses an empty list.
Jobs(op) ==
    IF op = "bulk_transfer"
    THEN {[need |-> n, layers |-> SelectSeq(LayerSnapshot, LAMBDA l : l.exp = e)] :
              n \in QtyInputs, e \in {1, 2}}
    ELSE {[need |-> n, layers |-> LayerSnapshot] : n \in LowStockInputs}

ValidJob(op, j) ==
    /\ j.layers # <<>>
    /\ op = "bulk_transfer" => j.need <= SnapTotal(j.layers)

LoopBegin(s) ==
    /\ sess[s].pc = "idle"
    /\ OpsStarted < MaxOps
    /\ \E op \in LoopOps, loc \in DestLocs :
          \E j \in Jobs(op) :
              /\ ValidJob(op, j)
              /\ sess' = [sess EXCEPT ![s] =
                             [IdleSession EXCEPT
                                 !.pc = "rs_fetch", !.op = op, !.loc = loc,
                                 !.need = j.need, !.snap = SortByCost(j.layers),
                                 !.status = "running",
                                 !.nOps = sess[s].nOps + 1]]
    /\ UNCHANGED <<inventory, shelf, entries, shortage>>

\* A shelf_shortage row as logged: outstanding quantity, not resolved.
ShortageRow(q) == [qty |-> q, resolved |-> FALSE, by |-> "none", at |-> FALSE]

RECURSIVE OpenShortages(_)
\* SELECT shortageid, shortage_qty ... WHERE resolved = FALSE ORDER BY logged_at
\* over the ids in S (ids grow with logged_at).
OpenShortages(S) ==
    IF S = {} THEN <<>>
    ELSE LET i == CHOOSE x \in S : \A y \in S : x <= y
         IN <<[id |-> i, qty |-> shortage[i].qty]>> \o OpenShortages(S \ {i})

\* resolve_shortages: the SELECT; remaining = qty_need.
RsFetch(s) ==
    LET me == sess[s]
        sq == OpenShortages({i \in DOMAIN shortage : ~shortage[i].resolved})
    IN
    /\ me.pc = "rs_fetch"
    /\ sess' = [sess EXCEPT ![s].sq = sq, ![s].idx = 1, ![s].left = me.need,
                            ![s].pc = IF sq = <<>> \/ me.need = 0
                                      THEN "rs_delete" ELSE "rs_update"]
    /\ UNCHANGED <<inventory, shelf, entries, shortage>>

\* resolved = (shortage_qty - %s = 0), evaluated on the row as the UPDATE
\* finds it.
ResolvedWhenCovered(q, take) == q - take <= 0

ResolvedAfter(q, take) == q - take = 0

\* resolve_shortages: one turn of the loop, the UPDATE of one shortage row
\* (no guard on the quantity; resolved_by is set on every update, resolved_at
\* only when the row reaches zero).
RsUpdate(s) ==
    LET me == sess[s]
        r == me.sq[me.idx]
        take == Min(me.left, r.qty)
        done == me.left - take = 0 \/ me.idx = Len(me.sq)
    IN
    /\ me.pc = "rs_update"
    /\ shortage' = [i \in DOMAIN shortage |->
                       IF i = r.id
                       THEN [qty |-> shortage[i].qty - take,
                             resolved |-> ResolvedAfter(shortage[i].qty, take),
                             by |-> s,
                             at |-> ResolvedAfter(shortage[i].qty, take)]
                       ELSE shortage[i]]
    /\ sess' = [sess EXCEPT ![s].left = @ - take, ![s].idx = @ + 1,
                            ![s].paid = IF r.id \in DOMAIN shortage THEN @ + take ELSE @,
                            ![s].pc = IF done THEN "rs_delete" ELSE "rs_update"]
    /\ UNCHANGED <<inventory, shelf, entries>>

\* resolve_shortages: DELETE ... WHERE shortage_qty = 0, return remaining; the
\* page then enters its loop over the layers.
RsDelete(s) ==
    LET me == sess[s] IN
    /\ me.pc = "rs_delete"
    /\ shortage' = [i \in {j \in DOMAIN shortage : shortage[j].qty # 0} |-> shortage[i]]
    /\ sess' = [sess EXCEPT ![s] =
                   LoopDispatch([me EXCEPT !.request = me.left, !.idx = 1])]
    /\ UNCHANGED <<inventory, shelf, entries>>

Next ==
    \E s \in Sessions :
        \/ Begin(s)
        \/ Retry(s)
        \/ TfiTxn(s)
        \/ MlDec(s)
        \/ MlUpsert(s)
        \/ MlAudit(s)

Spec == Init /\ [][Next]_vars

\* Stock the allocation pages can meet: nothing, or both layers holding the
\* same quantity with or without a second row of the first layer; and possibly
\* an open shortage logged earlier.
InitAllocInventory ==
    {inv \in [Batches -> 0 .. MaxQty] :
        inv["b1"] = inv["b2"] /\ inv["b3"] <= Min(inv["b1"], 1)}

InitShortage == {<<>>, <<ShortageRow(1)>>}

InitAlloc ==
    /\ inventory \in InitAllocInventory
    /\ shelf = [k \in ShelfKeys |-> <<>>]
    /\ entries = EmptyBag
    /\ shortage \in InitShortage
    /\ sess = [s \in Sessions |-> IdleSession]

\* The pages that allocate a quantity over the batches.
NextAlloc ==
    \E s \in Sessions :
        \/ DeclareBegin(s)
        \/ DcFetch(s)
        \/ DcUpdate(s)
        \/ SetRead(s)
        \/ SetWrite(s)
        \/ LoopBegin(s)
        \/ RsFetch(s)
        \/ RsUpdate(s)
        \/ RsDelete(s)
        \/ MlDec(s)
        \/ MlUpsert(s)
        \/ MlAudit(s)

SpecAlloc == InitAlloc /\ [][NextAlloc]_vars

\* The writers of the shelf table: transfers, declarations, shelf updates.
NextShelf ==
    \E s \in Sessions :
        \/ Begin(s)
        \/ TfiTxn(s)
        \/ MlDec(s)
        \/ MlUpsert(s)
        \/ MlAudit(s)
        \/ DeclareBegin(s)
        \/ DcFetch(s)
        \/ DcUpdate(s)
        \/ SetRead(s)
        \/ SetWrite(s)
        \/ UsqBegin(s)
        \/ UsqRead(s)
        \/ UsqWrite(s)

SpecShelf == Init /\ [][NextShelf]_vars

\* -------------------------------------------------------------------------
\* Shortage resolver called on its own
\* -------------------------------------------------------------------------
\* Up to two open shortages of the item, the first logged earlier.
InitShortageRows ==
    {<<>>} \cup {<<ShortageRow(q)>> : q \in 1 .. MaxQty}
           \cup {<<ShortageRow(q), ShortageRow(r)>> : q, r \in 1 .. MaxQty}

InitRows ==
    /\ inventory \in InitInventory
    /\ shelf = [k \in ShelfKeys |-> <<>>]
    /\ entries = EmptyBag
    /\ shortage \in InitShortageRows
    /\ sess = [s \in Sessions |-> IdleSession]

\* A call resolve_shortages(itemid, qty_need, user).
ResolveBegin(s) ==
    /\ sess[s].pc = "idle"
    /\ OpsStarted < MaxOps
    /\ \E n \in QtyInputs :
          sess' = [sess EXCEPT ![s] =
                      [IdleSession EXCEPT
                          !.pc = "rs_fetch", !.op = "resolve_shortages",
                          !.need = n, !.status = "running",
                          !.nOps = sess[s].nOps + 1]]
    /\ UNCHANGED <<inventory, shelf, entries, shortage>>

NextShortage ==
    \E s \in Sessions :
        \/ ResolveBegin(s)
        \/ RsFetch(s)
        \/ RsUpdate(s)
        \/ RsDelete(s)

SpecShortage == InitRows /\ [][NextShortage]_vars

\* -------------------------------------------------------------------------
\* Store failures
\* -------------------------------------------------------------------------
MoveLayerPcs == {"ml_dec", "ml_upsert", "ml_audit"}

\* DatabaseManager._execute when the command fails: reconnect, run it a second
\* time; the second failure leaves _execute, move_layer and the page as an
\* exception.  What the earlier commands of move_layer committed stays.
ExecFailed(s) ==
    /\ sess[s].pc \in MoveLayerPcs
    /\ sess[s].ret = "idle"
    /\ sess' = [sess EXCEPT ![s].pc = "idle", ![s].status = "failed",
                            ![s].attempts = 2, ![s].storeFailed = TRUE]
    /\ UNCHANGED <<inventory, shelf, entries, shortage>>

\* transfer_from_inventory when a command of its block fails: the cursor is
\* used directly, not through _execute, so nothing runs it again; the
\* exception leaves `with self.conn` and the transaction is rolled back.
TfiFailed(s) ==
    /\ sess[s].pc = "tfi_txn"
    /\ sess' = [sess EXCEPT ![s].pc = "idle", ![s].status = "failed",
                            ![s].attempts = 1, ![s].storeFailed = TRUE]
    /\ UNCHANGED <<inventory, shelf, entries, shortage>>

\* The transfers over a store whose commands can fail.
NextStore ==
    \E s \in Sessions :
        \/ Begin(s)
        \/ TfiTxn(s)
        \/ TfiFailed(s)
        \/ MlDec(s)
        \/ MlUpsert(s)
        \/ MlAudit(s)
        \/ ExecFailed(s)

SpecStore == Init /\ [][NextStore]_vars

\* -------------------------------------------------------------------------
\* Aggregation views: low stock and near expiry
\* -------------------------------------------------------------------------
\* Largest colour threshold the user enters, in days.
MaxDays == 3

\* A column of the item row that holds no value (SQL NULL, pandas <NA>); the
\* values the column can hold are not negative.
NULL == 0 - 1

Max(a, b) == IF a >= b THEN a ELSE b

\* item.shelfthreshold and item.shelfaverage.
ItemValues == {NULL} \cup (0 .. MaxQty + 1)

\* The threshold argument / the number_input with min_value = 1.
GlobalInputs == 1 .. MaxQty + 1

\* Shelf rows of the item at the two locations, same expiry and cost; NULL
\* stands for a location without a row.
RowInputs == {NULL} \cup (0 .. MaxQty)

ShelfWith(a, b) ==
    [k \in ShelfKeys |->
        IF k.exp = 1 /\ k.cost = 2 /\ k.loc = "A" /\ a # NULL THEN <<a>>
        ELSE IF k.exp = 1 /\ k.cost = 2 /\ k.loc = "B" /\ b # NULL THEN <<b>>
        ELSE <<>>]

InitViews ==
    /\ inventory = [b \in Batches |-> 0]
    /\ shelf \in {ShelfWith(a, b) : a, b \in RowInputs}
    /\ entries = EmptyBag
    /\ shortage = <<>>
    /\ sess = [s \in Sessions |-> IdleSession]

\* Rows of the shelf table of the item.
ShelfRows == {k \in ShelfKeys : shelf[k] # <<>>}

\* SUM(quantity) over the shelf rows of the item.
TotalQuantity == SumSet([k \in ShelfKeys |-> ShelfQty(k)], ShelfKeys)

Coalesce(x, d) == IF x = NULL THEN d ELSE x

\* WHERE s.totalquantity <= COALESCE(i.shelfthreshold, %s), over item JOIN
\* the per-item sums of shelf: an item without a shelf row has no sum to join.
LowStockRow(thr, threshold) ==
    ShelfRows # {} /\ TotalQuantity <= Coalesce(thr, threshold)

\* BarcodeShelfHandler.get_low_stock_items(threshold, limit): one query.
GetLowStockItems(s) ==
    /\ sess[s].pc = "idle"
    /\ OpsStarted < MaxOps
    /\ \E threshold \in GlobalInputs, thr \in ItemValues :
          sess' = [sess EXCEPT ![s] =
                      [IdleSession EXCEPT
                          !.op = "get_low_stock_items", !.status = "ok",
                          !.glob = threshold, !.thr = thr,
                          !.total = TotalQuantity,
                          !.flagged = LowStockRow(thr, threshold),
                          !.nOps = sess[s].nOps + 1]]
    /\ UNCHANGED <<inventory, shelf, entries, shortage>>

\* ShelfHandler.get_low_shelf_stock(threshold): the shelf rows, each on its
\* own, WHERE s.quantity <= %s.
LowShelfStock(threshold) == {k \in ShelfRows : ShelfQty(k) <= threshold}

\* alerts.py main, tab 1, first table: the global threshold and the rows of
\* get_low_shelf_stock.
AlertsLowStock(s) ==
    /\ sess[s].pc = "idle"
    /\ OpsStarted < MaxOps
    /\ \E global_threshold \in GlobalInputs :
          sess' = [sess EXCEPT ![s] =
                      [IdleSession EXCEPT
                          !.pc = "alerts_threshold", !.op = "alerts",
                          !.status = "running", !.glob = global_threshold,
                          !.total = TotalQuantity,
                          !.lowRows = LowShelfStock(global_threshold),
                          !.flagged = (LowShelfStock(global_threshold) # {}),
                          !.nOps = sess[s].nOps + 1]]
    /\ UNCHANGED <<inventory, shelf, entries, shortage>>

\* The filter that builds alerts_df from get_shelf_quantity_by_item
\* (COALESCE(SUM(s.quantity), 0) over item LEFT JOIN shelf).
ThresholdAlert(thr, totalquantity) ==
    thr # NULL /\ thr > 0 /\ totalquantity < thr

\* Python's x or 0 on a number.
OrZero(x) == IF x = 0 THEN 0 ELSE x

\* max(0, (r["shelfaverage"] or 0) - r["totalquantity"])
NeededForAverage(shelfaverage, totalquantity) ==
    Max(0, OrZero(shelfaverage) - totalquantity)

\* The columns shelfthreshold and shelfaverage are cast to Int64, so a
\* missing value reaches the lambda as <NA>, and <NA> or 0 asks <NA> for its
\* truth value, which raises TypeError.
TruthRaises(x) == x = NULL

\* alerts.py main, tab 1, second table: the threshold alerts with
\* needed_for_average.  An exception leaves main through its except clause,
\* which shows the error; tab 2 is not drawn.
AlertsThreshold(s) ==
    /\ sess[s].pc = "alerts_threshold"
    /\ \E thr \in ItemValues, shelfaverage \in ItemValues :
          LET me == [IdleSession EXCEPT
                        !.op = "alerts", !.glob = sess[s].glob,
                        !.thr = thr, !.avg = shelfaverage,
                        !.total = TotalQuantity,
                        !.flagged = ThresholdAlert(thr, TotalQuantity),
                        !.nOps = sess[s].nOps]
          IN  sess' = [sess EXCEPT ![s] =
                 IF me.flagged /\ TruthRaises(shelfaverage)
                 THEN [me EXCEPT !.pc = "idle", !.status = "failed",
                                 !.raised = TRUE]
                 ELSE [me EXCEPT !.pc = "alerts_expiry", !.status = "running",
                                 !.needed = IF me.flagged
                                            THEN NeededForAverage(shelfaverage, TotalQuantity)
                                            ELSE 0]]
    /\ UNCHANGED <<inventory, shelf, entries, shortage>>

\* The colour thresholds: red has min_value 1, orange min_value red + 1, green
\* min_value orange + 1.
BandInputs ==
    {b \in [red : 1 .. MaxDays, orange : 1 .. MaxDays, green : 1 .. MaxDays] :
        b.red < b.orange /\ b.orange < b.green}

\* days_left of a shelf row on the day the page runs; a row past its date has
\* a negative number.
DaysInputs == (0 - 1) .. (MaxDays + 1)

\* color_days of alerts.py and of 1_Low_Stock_Items.py.
ColorDays(val, red_days, orange_days, green_days) ==
    IF val <= red_days THEN "background-color: red; color: white;"
    ELSE IF val <= orange_days THEN "background-color: orange;"
    ELSE IF val <= green_days THEN "background-color: green; color: white;"
    ELSE ""

DaysColorBelow(days, red_days, orange_days, green_days) ==
    IF days < red_days THEN "red"
    ELSE IF days <= orange_days THEN "orange"
    ELSE IF days <= green_days THEN "green"
    ELSE "None"

\* days_color of 5_Expire.py.
DaysColor(days, red_days, orange_days, green_days) ==
    IF days <= red_days THEN "red"
    ELSE IF days <= orange_days THEN "orange"
    ELSE IF days <= green_days THEN "green"
    ELSE "None"

\* The days-based table of a row with days_left = d: near_expiry_df keeps the
\* rows with days_left <= green_days and color_days styles them.
NearExpiry(me, d, b) ==
    [me EXCEPT !.pc = "idle", !.status = "ok",
               !.days = d, !.red = b.red, !.orange = b.orange, !.green = b.green,
               !.shown = (d <= b.green),
               !.color = IF d <= b.green
                         THEN ColorDays(d, b.red, b.orange, b.green)
                         ELSE "unset"]

\* alerts.py main, tab 2; without shelf rows the page says so and returns.
AlertsNearExpiry(s) ==
    /\ sess[s].pc = "alerts_expiry"
    /\ LET me == [IdleSession EXCEPT !.op = "alerts", !.nOps = sess[s].nOps]
       IN  IF ShelfRows = {}
           THEN sess' = [sess EXCEPT ![s] = [me EXCEPT !.status = "ok"]]
           ELSE \E d \in DaysInputs, b \in BandInputs :
                    sess' = [sess EXCEPT ![s] = NearExpiry(me, d, b)]
    /\ UNCHANGED <<inventory, shelf, entries, shortage>>

\* 1_Low_Stock_Items.py, the same table as a page of its own.
NearExpiryPage(s) ==
    /\ sess[s].pc = "idle"
    /\ OpsStarted < MaxOps
    /\ ShelfRows # {}
    /\ \E d \in DaysInputs, b \in BandInputs :
          sess' = [sess EXCEPT ![s] =
                      NearExpiry([IdleSession EXCEPT
                                     !.op = "near_expiry",
                                     !.nOps = sess[s].nOps + 1], d, b)]
    /\ UNCHANGED <<inventory, shelf, entries, shortage>>

\* 5_Expire.py, tab 1: the rows with quantity > 0 get days_color, and
\* display_items keeps those whose colour is not None.
ExpirePage(s) ==
    /\ sess[s].pc = "idle"
    /\ OpsStarted < MaxOps
    /\ \E k \in ShelfRows : ShelfQty(k) > 0
    /\ \E d \in DaysInputs, b \in BandInputs :
          sess' = [sess EXCEPT ![s] =
                      [IdleSession EXCEPT
                          !.op = "expire", !.status = "ok",
                          !.days = d, !.red = b.red, !.orange = b.orange,
                          !.green = b.green,
                          !.color = DaysColor(d, b.red, b.orange, b.green),
                          !.shown = (DaysColor(d, b.red, b.orange, b.green) # "None"),
                          !.nOps = sess[s].nOps + 1]]
    /\ UNCHANGED <<inventory, shelf, entries, shortage>>

NextViews ==
    \E s \in Sessions :
        \/ GetLowStockItems(s)
        \/ AlertsLowStock(s)
        \/ AlertsThreshold(s)
        \/ AlertsNearExpiry(s)
        \/ NearExpiryPage(s)
        \/ ExpirePage(s)

SpecViews == InitViews /\ [][NextViews]_vars

\* -------------------------------------------------------------------------
\* Aggregation views: shelf-life fraction
\* -------------------------------------------------------------------------
\* Longest shelf life of an item, in days.
MaxLife == 4

\* The fraction thresholds are entered with two decimals: hundredths.
FracDen == 100

\* item.shelflife: missing, negative, zero or a number of days.
ShelfLifeInputs == {NULL, 0 - 2, 0} \cup (1 .. MaxLife)

\* red_frac, orange_frac, green_frac in hundredths: red has min_value 0.00,
\* orange min_value red + 0.01, green min_value orange + 0.01, all at most 1.
FracSteps == {(FracDen * k) \div MaxLife : k \in 1 .. MaxLife}

FracInputs ==
    {b \in [red : FracSteps, orange : FracSteps, green : FracSteps] :
        b.red < b.orange /\ b.orange < b.green}

\* One shelf row of the item, with or without stock.
InitFraction ==
    /\ inventory = [b \in Batches |-> 0]
    /\ shelf \in {ShelfWith(a, NULL) : a \in 0 .. MaxQty}
    /\ entries = EmptyBag
    /\ shortage = <<>>
    /\ sess = [s \in Sessions |-> IdleSession]

\* shelflife.notna() & (shelflife > 0); NaN > 0 is False.
PositiveShelfLife(shelflife) == shelflife # NULL /\ shelflife > 0

MissingOnly(shelflife) == shelflife = NULL

\* shelflife.isna() | (shelflife <= 0)
MissingShelfLife(shelflife) == shelflife = NULL \/ shelflife <= 0

\* days_left / shelflife <= frac for shelflife > 0 and frac in hundredths.
\* The quotient of the two integers and the threshold are both the double
\* nearest to their value, and rounding keeps the order, so the comparison
\* of the doubles is the comparison of the fractions.
FracLeq(days_left, shelflife, frac) == days_left * FracDen <= frac * shelflife

FracColorBelow(days_left, shelflife, red_frac, orange_frac, green_frac) ==
    IF ~PositiveShelfLife(shelflife) THEN "None"
    ELSE IF days_left * FracDen < red_frac * shelflife THEN "red"
    ELSE IF FracLeq(days_left, shelflife, orange_frac) THEN "orange"
    ELSE IF FracLeq(days_left, shelflife, green_frac) THEN "green"
    ELSE "None"

\* frac_color of 5_Expire.py on fraction_left, which is None where shelflife
\* is not positive.
FracColor(days_left, shelflife, red_frac, orange_frac, green_frac) ==
    IF ~PositiveShelfLife(shelflife) THEN "None"
    ELSE IF FracLeq(days_left, shelflife, red_frac) THEN "red"
    ELSE IF FracLeq(days_left, shelflife, orange_frac) THEN "orange"
    ELSE IF FracLeq(days_left, shelflife, green_frac) THEN "green"
    ELSE "None"

\* color_frac of 1_Low_Stock_Items.py, applied to the rows of fraction_df.
ColorFrac(days_left, shelflife, red_frac, orange_frac, green_frac) ==
    IF FracLeq(days_left, shelflife, red_frac)
    THEN "background-color: red; color: white;"
    ELSE IF FracLeq(days_left, shelflife, orange_frac)
    THEN "background-color: orange;"
    ELSE IF FracLeq(days_left, shelflife, green_frac)
    THEN "background-color: green; color: white;"
    ELSE ""

\* 5_Expire.py, tab 2: the rows with quantity > 0 get fraction_left and
\* frac_color; display_items keeps the coloured rows and missing_shelf_life
\* lists the rows without a positive shelf life.
ExpireFraction(s) ==
    /\ sess[s].pc = "idle"
    /\ OpsStarted < MaxOps
    /\ \E k \in ShelfRows : ShelfQty(k) > 0
    /\ \E d \in DaysInputs, shelflife \in ShelfLifeInputs, b \in FracInputs :
          sess' = [sess EXCEPT ![s] =
                      [IdleSession EXCEPT
                          !.op = "expire_fraction", !.status = "ok",
                          !.days = d, !.life = shelflife,
                          !.red = b.red, !.orange = b.orange, !.green = b.green,
                          !.eligible = PositiveShelfLife(shelflife),
                          !.color = FracColor(d, shelflife, b.red, b.orange, b.green),
                          !.shown = (FracColor(d, shelflife, b.red, b.orange, b.green) # "None"),
                          !.missing = MissingShelfLife(shelflife),
                          !.nOps = sess[s].nOps + 1]]
    /\ UNCHANGED <<inventory, shelf, entries, shortage>>

\* 1_Low_Stock_Items.py, shelf-life subtab: fraction_df holds the rows with a
\* positive shelf life, alerts_frac_df those of them at or below green_frac,
\* styled by color_frac; missing lists the rows without a positive shelf life.
FractionPage(s) ==
    /\ sess[s].pc = "idle"
    /\ OpsStarted < MaxOps
    /\ ShelfRows # {}
    /\ \E d \in DaysInputs, shelflife \in ShelfLifeInputs, b \in FracInputs :
          LET inFraction == PositiveShelfLife(shelflife)
              inAlerts   == inFraction /\ FracLeq(d, shelflife, b.green)
          IN  sess' = [sess EXCEPT ![s] =
                      [IdleSession EXCEPT
                          !.op = "fraction_page", !.status = "ok",
                          !.days = d, !.life = shelflife,
                          !.red = b.red, !.orange = b.orange, !.green = b.green,
                          !.eligible = inFraction,
                          !.shown = inAlerts,
                          !.color = IF inAlerts
                                    THEN ColorFrac(d, shelflife, b.red, b.orange, b.green)
                                    ELSE "unset",
                          !.missing = MissingShelfLife(shelflife),
                          !.nOps = sess[s].nOps + 1]]
    /\ UNCHANGED <<inventory, shelf, entries, shortage>>

NextFraction ==
    \E s \in Sessions :
        \/ ExpireFraction(s)
        \/ FractionPage(s)

SpecFraction == InitFraction /\ [][NextFraction]_vars

\* -------------------------------------------------------------------------
\* Shelf transfers (4_Shelf_Transfer.py) and shelf management
\* (3_Shelf_Managment.py)
\* -------------------------------------------------------------------------
MoveOps == {"shelf_to_shelf", "shelf_to_inventory", "shelf_management"}

\* The item on the shelves before the pages run: at most one row at each
\* location.
InitMove ==
    /\ inventory = [b \in Batches |-> 0]
    /\ shelf \in {ShelfWith(a, b) : a, b \in RowInputs}
    /\ entries = EmptyBag
    /\ shortage = <<>>
    /\ sess = [s \in Sessions |-> IdleSession]

\* get_shelf_items(locid): the rows at locid with quantity > 0.
ShelfItems(loc) == {k \in ShelfRowsAt(loc) : ShelfQty(k) > 0}

\* Shelf -> Shelf, Execute Transfer: the run of the page reads the rows of
\* the source; the widgets are keyed by (source, target, itemid), so the
\* page draws only with one row of the item there; the user's quantity is
\* between 1 and the quantity of that row.
S2sBegin(s) ==
    /\ sess[s].pc = "idle"
    /\ OpsStarted < MaxOps
    /\ \E source_locid \in Locs, target_locid \in Locs, k \in ShelfKeys :
          /\ target_locid # source_locid
          /\ ShelfItems(source_locid) = {k}
          /\ \E qty_to_transfer \in 1 .. ShelfQty(k) :
                sess' = [sess EXCEPT ![s] =
                            [IdleSession EXCEPT
                                !.pc = "mv_read", !.op = "shelf_to_shelf",
                                !.ret = "target", !.status = "running",
                                !.loc = source_locid, !.tgt = target_locid,
                                !.shelfQty = ShelfQty(k), !.qty = qty_to_transfer,
                                !.newQty = ShelfQty(k) - qty_to_transfer,
                                !.nOps = sess[s].nOps + 1]]
    /\ UNCHANGED <<inventory, shelf, entries, shortage>>

\* Shelf -> Inventory, Move to Inventory: the same reading of one location.
S2iBegin(s) ==
    /\ sess[s].pc = "idle"
    /\ OpsStarted < MaxOps
    /\ \E shelf_locid \in Locs, k \in ShelfKeys :
          /\ ShelfItems(shelf_locid) = {k}
          /\ \E qty_to_inventory \in 1 .. ShelfQty(k) :
                sess' = [sess EXCEPT ![s] =
                            [IdleSession EXCEPT
                                !.pc = "mv_read", !.op = "shelf_to_inventory",
                                !.ret = "return", !.status = "running",
                                !.loc = shelf_locid,
                                !.shelfQty = ShelfQty(k), !.qty = qty_to_inventory,
                                !.newQty = ShelfQty(k) - qty_to_inventory,
                                !.nOps = sess[s].nOps + 1]]
    /\ UNCHANGED <<inventory, shelf, entries, shortage>>

\* Shelf management, Update button of a row: get_all_shelf_items lists every
\* row (widgets keyed by (locid, itemid)); new_qty is any quantity from 0;
\* the row's quantity goes back to inventory when new_qty is 0 and the row
\* held stock.
MgmtBegin(s) ==
    /\ sess[s].pc = "idle"
    /\ OpsStarted < MaxOps
    /\ \E selected_locid \in Locs, k \in ShelfKeys, new_qty \in 0 .. MaxQty :
          /\ ShelfRowsAt(selected_locid) = {k}
          /\ LET back == new_qty = 0 /\ ShelfQty(k) > 0
             IN  sess' = [sess EXCEPT ![s] =
                            [IdleSession EXCEPT
                                !.pc = "mv_read", !.op = "shelf_management",
                                !.ret = IF back THEN "return" ELSE "idle",
                                !.status = "running",
                                !.loc = selected_locid,
                                !.shelfQty = ShelfQty(k),
                                !.qty = IF back THEN ShelfQty(k) ELSE 0,
                                !.newQty = new_qty,
                                !.nOps = sess[s].nOps + 1]]
    /\ UNCHANGED <<inventory, shelf, entries, shortage>>

\* update_shelf_quantity: the SELECT.
MvRead(s) ==
    /\ sess[s].pc = "mv_read"
    /\ sess' = [sess EXCEPT ![s] = ShelfRead(sess[s], "mv_write")]
    /\ UNCHANGED <<inventory, shelf, entries, shortage>>

\* update_shelf_quantity: the command chosen by the SELECT; INSERT when no
\* row was found and new_qty > 0, UPDATE of the rows at locid when new_qty >
\* 0, DELETE of them otherwise; nothing when no row was found and new_qty is 0.
UpdatedShelf(sh, exists, loc, new_qty) ==
    IF ~exists
    THEN IF new_qty > 0 THEN InsertShelfRow(sh, DeclaredKey(loc), new_qty) ELSE sh
    ELSE IF new_qty > 0 THEN SetQtyAt(sh, loc, new_qty) ELSE DeleteAt(sh, loc)

\* update_shelf_quantity: the write.  The page goes on to the target shelf,
\* to return_to_inventory, or is done; an INSERT the unique constraint
\* rejects ends the page with the exception.
MvWrite(s) ==
    LET me == sess[s]
        rejected == ~me.exists /\ me.newQty > 0
                        /\ UniqueViolation(shelf, DeclaredKey(me.loc))
        after == UpdatedShelf(shelf, me.exists, me.loc, me.newQty)
        change == SumSeq(after[DeclaredKey(me.loc)]) - ShelfQty(DeclaredKey(me.loc))
                    + SumSet([k \in ShelfKeys |-> SumSeq(after[k]) - ShelfQty(k)],
                             {k \in ShelfKeys : k.loc = me.loc} \ {DeclaredKey(me.loc)})
    IN
    /\ me.pc = "mv_write"
    /\ IF rejected
       THEN /\ shelf' = shelf
            /\ sess' = [sess EXCEPT ![s].pc = "idle", ![s].status = "failed"]
       ELSE /\ shelf' = after
            /\ sess' = [sess EXCEPT ![s] =
                  IF me.ret = "target"
                  THEN [me EXCEPT !.pc = "s2s_fetch", !.shelfDec = 0 - change]
                  ELSE IF me.ret = "return"
                  THEN [me EXCEPT !.pc = "ret_check", !.shelfDec = 0 - change]
                  ELSE IF me.ret = "target_done"
                  THEN [me EXCEPT !.pc = "idle", !.status = "ok", !.tgtInc = change]
                  ELSE [me EXCEPT !.pc = "idle", !.status = "ok",
                                  !.shelfDec = 0 - change]]
    /\ UNCHANGED <<inventory, entries, shortage>>

\* Shelf -> Shelf: get_shelf_items(target_locid) and the quantity of the first
\* row of the item there (rows of one item are in no particular order), 0
\* without one; then update_shelf_quantity(target, current + qty).
S2sTargetFetch(s) ==
    /\ sess[s].pc = "s2s_fetch"
    /\ \E current_target_qty \in
              (IF ShelfItems(sess[s].tgt) = {} THEN {0}
               ELSE {ShelfQty(k) : k \in ShelfItems(sess[s].tgt)}) :
          sess' = [sess EXCEPT ![s].pc = "mv_read", ![s].ret = "target_done",
                               ![s].loc = sess[s].tgt,
                               ![s].newQty = current_target_qty + sess[s].qty]
    /\ UNCHANGED <<inventory, shelf, entries, shortage>>

\* The inventory rows a page returns stock to: (CURRENT_DATE, cost 0) at
\* storage location 'ShelfReturn' (4_Shelf_Transfer.py) or 'BulkReturn'
\* (3_Shelf_Managment.py); a second row of the kind exists after two INSERTs.
ReturnStore(op) == IF op = "shelf_management" THEN "BulkReturn" ELSE "ShelfReturn"

ReturnBatches(store) ==
    IF store = "ShelfReturn" THEN <<"ShelfReturn", "ShelfReturn2">>
    ELSE <<"BulkReturn", "BulkReturn2">>

ReturnRows(store) ==
    {b \in DOMAIN inventory : BatchStore(b) = store}

\* return_to_inventory: the SELECT of the return row.
RetCheck(s) ==
    /\ sess[s].pc = "ret_check"
    /\ sess' = [sess EXCEPT ![s].pc = "ret_write",
                            ![s].exists = (ReturnRows(ReturnStore(sess[s].op)) # {})]
    /\ UNCHANGED <<inventory, shelf, entries, shortage>>

\* UPDATE inventory SET quantity=quantity+%s WHERE <return row>
AddToReturn(inv, store, qty) ==
    [b \in DOMAIN inv |-> IF BatchStore(b) = store THEN inv[b] + qty ELSE inv[b]]

\* INSERT INTO inventory (...) VALUES (%s, CURRENT_DATE, %s, 0, <store>)
InsertReturn(inv, store, qty) ==
    LET names == ReturnBatches(store)
        b == IF names[1] \in DOMAIN inv THEN names[2] ELSE names[1]
    IN  [x \in DOMAIN inv \cup {b} |-> IF x = b THEN qty ELSE inv[x]]

InventoryTotal(inv) == SumSet(inv, DOMAIN inv)

\* return_to_inventory: the UPDATE or the INSERT chosen by the SELECT.
RetWrite(s) ==
    LET me == sess[s]
        store == ReturnStore(me.op)
        after == IF me.exists THEN AddToReturn(inventory, store, me.qty)
                 ELSE InsertReturn(inventory, store, me.qty)
    IN
    /\ me.pc = "ret_write"
    /\ Cardinality(ReturnRows(store)) < 2 \/ me.exists
    /\ inventory' = after
    /\ sess' = [sess EXCEPT ![s].pc = "idle", ![s].status = "ok",
                            ![s].invAdd = InventoryTotal(after) - InventoryTotal(inventory)]
    /\ UNCHANGED <<shelf, entries, shortage>>

NextMove ==
    \E s \in Sessions :
        \/ S2sBegin(s)
        \/ S2iBegin(s)
        \/ MgmtBegin(s)
        \/ MvRead(s)
        \/ MvWrite(s)
        \/ S2sTargetFetch(s)
        \/ RetCheck(s)
        \/ RetWrite(s)

SpecMove == InitMove /\ [][NextMove]_vars

\* -------------------------------------------------------------------------
\* Properties of the transfer engine (specification Spec)
\* -------------------------------------------------------------------------
\* Session s runs (or last ran) a transfer of a positive quantity: the requests
\* the transfer contract admits.
IsTransfer(s) == sess[s].op \in TransferOps /\ sess[s].qty > 0

Returned(s) == sess[s].pc = "idle" /\ sess[s].status = "ok"

\* C1 (conservation): a transfer that returned without raising decreased the
\* inventory quantities by exactly the amount it added to the shelf.
C1_Conservation ==
    \A s \in Sessions :
        (IsTransfer(s) /\ Returned(s)) => sess[s].invDec = sess[s].shelfInc

\* C2 (atomicity): no observable state holds some but not all of the writes of
\* a transfer: the decrement is never visible without the shelf upsert, nor
\* the shelf upsert without its audit row.
C2_Atomicity ==
    \A s \in Sessions :
        IsTransfer(s) =>
            /\ (sess[s].invDec # 0) => (sess[s].merged # "none")
            /\ (sess[s].merged # "none") <=> (sess[s].nAudit = 1)

\* C3 (non-negativity): every inventory quantity and every shelf quantity is
\* >= 0 in every reachable state.
C3_NonNegative ==
    /\ \A b \in DOMAIN inventory : inventory[b] >= 0
    /\ \A k \in ShelfKeys : \A i \in DOMAIN shelf[k] : shelf[k][i] >= 0

\* C4 (guarded decrement): when the conditional decrement matched no row, the
\* transfer ends reported as failed and changed neither the shelf nor the
\* audit log.
C4_GuardFailureFails ==
    \A s \in Sessions :
        (IsTransfer(s) /\ sess[s].guardFailed) =>
            /\ sess[s].shelfInc = 0
            /\ sess[s].merged = "none"
            /\ sess[s].nAudit = 0
            /\ (sess[s].pc = "idle" => sess[s].status = "failed")

\* Two sessions each asked for the whole remaining quantity q of one batch
\* (a layer with a single inventory row) while it still held q, and both
\* requests have ended; nothing else ran.
RacedForLastUnits(s, t) ==
    /\ s # t
    /\ IsTransfer(s) /\ IsTransfer(t)
    /\ sess[s].pc = "idle" /\ sess[t].pc = "idle"
    /\ sess[s].nOps = 1 /\ sess[t].nOps = 1 /\ OpsStarted = 2
    /\ sess[s].exp = sess[t].exp /\ sess[s].cost = sess[t].cost
    /\ Cardinality(LayerRows(sess[s].exp, sess[s].cost)) = 1
    /\ sess[s].qty > 0
    /\ sess[s].qty = sess[t].qty
    /\ sess[s].startQty = sess[s].qty /\ sess[t].startQty = sess[t].qty

\* C5 (race on the last units): of two concurrent transfers of the full
\* remaining quantity q of one batch exactly one succeeds and the other
\* fails; the batch ends at 0 and the shelf gains q, not 2q.
C5_LastUnitsRace ==
    \A s, t \in Sessions :
        RacedForLastUnits(s, t) =>
            /\ {sess[s].status, sess[t].status} = {"ok", "failed"}
            /\ LayerQty(sess[s].exp, sess[s].cost) = 0
            /\ sess[s].shelfInc + sess[t].shelfInc = sess[s].qty

\* C8 (idempotence under retry): when a failed attempt is re-run with the same
\* inputs, the shelf gains over both attempts what the re-run alone moves
\* (its quantity if its decrement succeeded, else nothing): the failed
\* attempt contributes nothing.
C8_RetryIdempotent ==
    \A s \in Sessions :
        (IsTransfer(s) /\ sess[s].retry /\ sess[s].pc = "idle") =>
            sess[s].prevInc + sess[s].shelfInc =
                (IF sess[s].invDec # 0 THEN sess[s].qty ELSE 0)

\* The step in which session s applies its shelf upsert.
UpsertStep(s) == sess[s].merged = "none" /\ sess'[s].merged # "none"

UpsertKey(s) == [exp |-> sess[s].exp, cost |-> sess[s].cost, loc |-> sess[s].loc]

\* C9 (upsert merge): transferring quantity t to a shelf key leaves exactly one
\* row for the key, holding old + t when the key existed and t otherwise,
\* and touches no other key.
C9_UpsertMerges ==
    [][\A s \in Sessions :
          UpsertStep(s) =>
              /\ shelf'[UpsertKey(s)] =
                    (IF shelf[UpsertKey(s)] = <<>>
                     THEN <<sess[s].qty>>
                     ELSE <<shelf[UpsertKey(s)][1] + sess[s].qty>>)
              /\ \A k \in ShelfKeys \ {UpsertKey(s)} : shelf'[k] = shelf[k]]_vars

\* A transfer has merged a positive quantity into an existing shelf row.
C9_Witness ==
    \E s \in Sessions :
        /\ sess[s].merged = "merge"
        /\ sess[s].qty > 0
        /\ ShelfQty(UpsertKey(s)) > sess[s].qty

\* -------------------------------------------------------------------------
\* Properties of the allocation loops (specification SpecAlloc)
\* -------------------------------------------------------------------------
Allocating(s) == sess[s].op \in AllocOps /\ sess[s].request > 0

\* C6 (allocation correctness): in every allocation the quantities taken so far
\* plus the quantity still left equal the requested quantity; when the
\* allocation has ended, the quantity left (the shortfall) is non-zero only if
\* the batches it read held less than the request, and with no batch read the
\* plan is empty and the shortfall is the whole request.
C6_AllocationCorrect ==
    \A s \in Sessions :
        Allocating(s) =>
            /\ SumTakes(sess[s].plan) + sess[s].left = sess[s].request
            /\ sess[s].allocDone =>
                   /\ sess[s].left # 0 => SnapTotal(sess[s].snap) < sess[s].request
                   /\ sess[s].snap = <<>> =>
                          sess[s].plan = <<>> /\ sess[s].left = sess[s].request

\* An allocation ended short: the batches it read held less than the request,
\* it took them all and reports the rest.
C6_Witness ==
    \E s \in Sessions :
        /\ Allocating(s) /\ sess[s].allocDone
        /\ sess[s].plan # <<>>
        /\ SumTakes(sess[s].plan) = SnapTotal(sess[s].snap)
        /\ sess[s].left > 0

C11_AuditTrail ==
    \A s \in Sessions :
        (IsTransfer(s) /\ sess[s].shelfInc > 0) =>
            /\ sess[s].nAudit = 1
            /\ BagIn(AuditRow(s, sess[s].exp, sess[s].qty, sess[s].loc), entries)

\* Session s, inside the loop of a transfer page, commits the decrement of the
\* layer it has reached.
LoopWrite(s) ==
    /\ sess[s].op \in LoopOps
    /\ sess[s].pc = "ml_dec"
    /\ sess'[s].pc = "ml_upsert"

\* C12 (no stale allocation): the amount a transfer page takes from a layer is
\* the amount the live quantity of the layer gives at the time of the write:
\* take = min(remaining need, quantity the layer holds now).
C12_NoStaleAllocation ==
    [][\A s \in Sessions :
          (LoopWrite(s) /\ sess[s].request > 0) =>
              sess[s].qty = Min(sess[s].left + sess[s].qty,
                                LayerQty(sess[s].exp, sess[s].cost))]_vars

\* C13 (validation): a transfer requested with a zero or negative quantity is
\* rejected before any write: it changes neither inventory nor shelf nor audit
\* log, and it ends reported as failed.
C13_RejectsNonPositive ==
    \A s \in Sessions :
        (sess[s].op \in TransferOps /\ sess[s].qty <= 0) =>
            /\ sess[s].invDec = 0
            /\ sess[s].merged = "none"
            /\ sess[s].nAudit = 0
            /\ sess[s].pc = "idle" => sess[s].status = "failed"

\* -------------------------------------------------------------------------
\* Properties under store failures (specification SpecStore)
\* -------------------------------------------------------------------------
\* C14 (store failure): a store command that fails has been run twice (once
\* again after a reconnect) before the failure reaches the caller, and a
\* transfer that ended with such a failure left none of its writes applied:
\* no batch decrement, no shelf upsert, no audit row.
C14_StoreFailureClean ==
    \A s \in Sessions :
        (IsTransfer(s) /\ sess[s].storeFailed) =>
            /\ sess[s].attempts = 2
            /\ sess[s].invDec = 0
            /\ sess[s].shelfInc = 0
            /\ sess[s].nAudit = 0

\* -------------------------------------------------------------------------
\* Properties of the shortage resolver (specification SpecShortage)
\* -------------------------------------------------------------------------
\* No session has called the resolver with a need that is not positive.
PositiveNeeds == \A t \in Sessions : sess[t].op = "resolve_shortages" => sess[t].need > 0

\* Session s has returned from resolve_shortages; every call so far had a
\* positive need.
Resolved(s) ==
    /\ sess[s].op = "resolve_shortages"
    /\ sess[s].pc = "idle"
    /\ OpsStarted = Cardinality({t \in Sessions : sess[t].op = "resolve_shortages"})
    /\ PositiveNeeds

\* C15 (resolver amounts): the value resolve_shortages returns is qty_need
\* minus the total amount by which the call decreased the outstanding
\* quantities, and it lies between 0 and qty_need.
C15_ResolverAmounts ==
    \A s \in Sessions :
        Resolved(s) =>
            /\ sess[s].request = sess[s].need - sess[s].paid
            /\ 0 <= sess[s].request /\ sess[s].request <= sess[s].need

ShortageStep(s) == sess[s].pc = "rs_update" /\ sess'[s].idx = sess[s].idx + 1

\* C17 (shortage FIFO): a call reduces a shortage only when no older shortage
\* of the item is left unresolved: the older ones were paid down to zero first.
C17_ShortageFifo ==
    [][\A s \in Sessions :
          (ShortageStep(s) /\ PositiveNeeds
               /\ OpsStarted = Cardinality({t \in Sessions : sess[t].op = "resolve_shortages"})) =>
              \A j \in DOMAIN shortage :
                  j < sess[s].sq[sess[s].idx].id => shortage[j].qty = 0]_vars

\* -------------------------------------------------------------------------
\* Properties of the aggregation views (specification SpecViews)
\* -------------------------------------------------------------------------
\* Session s holds the answer of a low-stock view about the item.
LowStockAnswer(s) ==
    \/ sess[s].op = "get_low_stock_items"
    \/ sess[s].op = "alerts" /\ sess[s].pc = "alerts_expiry"

\* C18  Low-stock detection: the item is flagged exactly when its shelf
\* quantity summed over all locations is below COALESCE(item threshold, global
\* default); at or above the threshold it is never flagged.
C18_LowStockFlag ==
    \A s \in Sessions :
        LowStockAnswer(s) =>
            (sess[s].flagged <=>
                TotalQuantity < (IF sess[s].thr = NULL THEN sess[s].glob
                                 ELSE sess[s].thr))

\* Session s has gone through the threshold alerts of the alerts page for an
\* item that is listed there.
AlertListed(s) ==
    /\ sess[s].op = "alerts"
    /\ sess[s].pc \in {"alerts_expiry", "idle"}
    /\ sess[s].status \in {"running", "failed"}
    /\ sess[s].flagged

\* C19  Needed-for-average floor: needed_for_average is max(0, shelf_average -
\* shelf quantity) with a missing shelf_average counted as 0; it is never
\* negative and is 0 when the shelf quantity is at or above the average.
C19_NeededForAverage ==
    \A s \in Sessions :
        AlertListed(s) =>
            LET average == IF sess[s].avg = NULL THEN 0 ELSE sess[s].avg
                gap     == average - sess[s].total
            IN  /\ ~sess[s].raised
                /\ sess[s].needed = (IF gap > 0 THEN gap ELSE 0)
                /\ sess[s].needed >= 0
                /\ (sess[s].total >= average => sess[s].needed = 0)

ExpiryViews == {"alerts", "near_expiry", "expire"}

\* Session s has classified a shelf row by its days left.
Classified(s) ==
    /\ sess[s].op \in ExpiryViews
    /\ sess[s].pc = "idle"
    /\ sess[s].status = "ok"
    /\ sess[s].green > 0

\* The band the page shows for the row: the colour of a row it lists, none
\* for a row it leaves out.
Band(s) ==
    IF ~sess[s].shown THEN "none"
    ELSE IF sess[s].color \in {"red", "background-color: red; color: white;"}
         THEN "red"
    ELSE IF sess[s].color \in {"orange", "background-color: orange;"}
         THEN "orange"
    ELSE IF sess[s].color \in {"green", "background-color: green; color: white;"}
         THEN "green"
    ELSE "other"

\* C20  Absolute-days banding: with R < O < G a row is red iff days_left <= R,
\* orange iff R < days_left <= O, green iff O < days_left <= G, without a band
\* iff days_left > G, and gets exactly one of the four.
C20_DaysBanding ==
    \A s \in Sessions :
        Classified(s) =>
            LET d == sess[s].days
                R == sess[s].red
                O == sess[s].orange
                G == sess[s].green
            IN  /\ Band(s) \in {"red", "orange", "green", "none"}
                /\ (Band(s) = "red" <=> d <= R)
                /\ (Band(s) = "orange" <=> (R < d /\ d <= O))
                /\ (Band(s) = "green" <=> (O < d /\ d <= G))
                /\ (Band(s) = "none" <=> d > G)

\* The expiry page shows a row at the edge of red while the alerts page,
\* after its low-stock tables, leaves out a row beyond green.
C20_Witness ==
    \E s, t \in Sessions :
        /\ Classified(s) /\ sess[s].op = "expire"
        /\ sess[s].days = sess[s].red /\ Band(s) = "red"
        /\ Classified(t) /\ sess[t].op = "alerts"
        /\ sess[t].days > sess[t].green /\ Band(t) = "none"

\* -------------------------------------------------------------------------
\* Properties of the shelf-life fraction views (specification SpecFraction)
\* -------------------------------------------------------------------------
FractionViews == {"expire_fraction", "fraction_page"}

\* C21  Shelf-life-fraction banding: for an item with shelf_life > 0 a row is
\* red iff days_left / shelf_life <= red_frac, orange iff it is above red_frac
\* and <= orange_frac, green iff above orange_frac and <= green_frac; a row
\* exactly at red_frac (18 days of 90 with red_frac 0.20) is red.
C21_FractionBanding ==
    /\ \A s \in Sessions :
          (sess[s].op \in FractionViews /\ sess[s].life # NULL /\ sess[s].life > 0) =>
              LET n == sess[s].days * FracDen
                  R == sess[s].red * sess[s].life
                  O == sess[s].orange * sess[s].life
                  G == sess[s].green * sess[s].life
              IN  /\ (Band(s) = "red" <=> n <= R)
                  /\ (Band(s) = "orange" <=> (R < n /\ n <= O))
                  /\ (Band(s) = "green" <=> (O < n /\ n <= G))
    /\ FracColor(18, 90, 20, 40, 80) = "red"
    /\ ColorFrac(18, 90, 20, 40, 80) = "background-color: red; color: white;"

\* Both pages show as red a row whose fraction left is exactly red_frac.
C21_Witness ==
    \E s, t \in Sessions :
        /\ sess[s].op = "expire_fraction" /\ sess[t].op = "fraction_page"
        /\ \A u \in {s, t} :
              /\ sess[u].life # NULL /\ sess[u].life > 0
              /\ sess[u].days * FracDen = sess[u].red * sess[u].life
              /\ Band(u) = "red"

\* C22  Fraction-banding applicability: every row is either a row of an item
\* with shelf_life > 0, eligible for fraction banding, or a row reported
\* separately for its missing or non-positive shelf_life, never both and
\* never neither; a row of the second kind never gets a fraction band.
C22_FractionApplicability ==
    \A s \in Sessions :
        sess[s].op \in FractionViews =>
            /\ sess[s].eligible <=> (sess[s].life # NULL /\ sess[s].life > 0)
            /\ sess[s].missing <=> ~sess[s].eligible
            /\ sess[s].missing => Band(s) = "none"

\* One page reports a row without shelf life, the other a row with shelf
\* life zero, while neither row is banded.
C22_Witness ==
    \E s, t \in Sessions :
        /\ sess[s].op = "expire_fraction" /\ sess[s].life = NULL
        /\ sess[s].missing /\ Band(s) = "none"
        /\ sess[t].op = "fraction_page" /\ sess[t].life = 0
        /\ sess[t].missing /\ Band(t) = "none"

\* -------------------------------------------------------------------------
\* Properties of subtract_inventory and of the layer decrement
\* -------------------------------------------------------------------------
\* Session s runs one turn of subtract_inventory's loop.
DeclareStep(s) ==
    sess[s].op = "declare" /\ sess[s].pc = "dc_update" /\ sess'[s].idx = sess[s].idx + 1

\* Inventory rows whose quantity the step changes.
ChangedBatches == {b \in Batches : inventory'[b] # inventory[b]}

\* C23  Untouched later batches: when the batches read hold more than the
\* requested quantity, a turn of the loop changes no batch but the one it
\* consumes (the batches ranked after it keep their quantity) and every batch
\* consumed before the last one is left at zero.
C23_LaterUntouched ==
    [][\A s \in Sessions :
          (DeclareStep(s) /\ sess[s].request > 0
              /\ SnapTotal(sess[s].snap) > sess[s].request) =>
                  LET row == sess[s].snap[sess[s].idx]
                  IN  /\ Cardinality(ChangedBatches) <= 1
                      /\ \A b \in ChangedBatches :
                            /\ BatchExp(b) = row.exp /\ BatchCost(b) = row.cost
                            /\ sess'[s].pc = "dc_update" => inventory'[b] = 0]_vars

\* C25  Single-row decrement: a layer transfer of quantity q whose guarded
\* decrement matched takes q from one inventory row, so the inventory of the
\* item goes down by exactly q, also when rows at several storage locations
\* share expiration date and unit cost.
C25_SingleRowDecrement ==
    \A s \in Sessions :
        (IsTransfer(s) /\ Returned(s) /\ ~sess[s].guardFailed) =>
            sess[s].invDec = sess[s].qty

\* -------------------------------------------------------------------------
\* Properties of the shelf lookups (specification SpecShelf)
\* -------------------------------------------------------------------------
NonZero(q) == q # 0

\* The shelf table without its rows of quantity zero.
WithoutZeroRows(sh) == [k \in DOMAIN sh |-> SelectSeq(sh[k], NonZero)]

\* Every transfer started so far asked for a positive quantity.
PositiveTransfers ==
    \A t \in Sessions : sess[t].op \in TransferOps => sess[t].qty > 0

\* C24  Zero treated as absent: a step that only adds or removes shelf rows
\* of quantity zero changes the answer of no shelf lookup: the locations and
\* totals of get_shelf_entries, the row test of set_shelf_quantity, the
\* low-stock listing of the item.
C24_ZeroAsAbsent ==
    [][(PositiveTransfers /\ WithoutZeroRows(shelf') = WithoutZeroRows(shelf)) =>
          /\ DeclaredLocs' = DeclaredLocs
          /\ \A loc \in Locs : ShelfQtyAt(loc)' = ShelfQtyAt(loc)
          /\ \A thr \in ItemValues, threshold \in GlobalInputs :
                LowStockRow(thr, threshold)' = LowStockRow(thr, threshold)]_vars

\* The batches read are of different cost layers.
DistinctLayers(snap) ==
    \A i, j \in DOMAIN snap :
        (snap[i].exp = snap[j].exp /\ snap[i].cost = snap[j].cost) => i = j

\* Session s is past subtract_inventory, whose return value is qty - left,
\* and read one batch per cost layer.
Subtracted(s) ==
    /\ sess[s].op = "declare"
    /\ sess[s].request > 0
    /\ sess[s].allocDone
    /\ DistinctLayers(sess[s].snap)

\* C26  Reported subtraction is real: the value subtract_inventory returns
\* ('Inventory reduced by N') is the amount by which its updates decreased the
\* inventory rows, also when another session consumed a batch between the
\* read of the batches and the guarded update.
C26_ReportedSubtraction ==
    \A s \in Sessions :
        Subtracted(s) => sess[s].request - sess[s].left = sess[s].invDec

\* Session s completes set_shelf_quantity, or update_shelf_quantity with a
\* positive quantity, with this step, and what its SELECT found still holds.
ShelfSetStep(s) ==
    /\ sess[s].pc \in {"set_write", "usq_write"}
    /\ sess[s].op = "update_shelf_quantity" => sess[s].newQty > 0
    /\ sess[s].exists = (ShelfRowsAt(sess[s].loc) # {})
    /\ sess'[s].pc = "idle"
    /\ sess'[s].status = "ok"

\* C27  Declared quantity is the resulting total: right after
\* set_shelf_quantity(item, loc, q), or update_shelf_quantity with q > 0, the
\* quantities of the item at loc summed over all its layers there equal q,
\* whatever the number of layers at loc.
C27_DeclaredIsTotal ==
    [][\A s \in Sessions :
          (ShelfSetStep(s) /\ PositiveTransfers) =>
              ShelfQtyAt(sess[s].loc)' = sess[s].newQty]_vars

\* C28  Shortage outstanding never negative: while resolve_shortages is only
\* called with positive quantities, every shortage row has quantity >= 0 in
\* every state, under every interleaving of calls for the item.
C28_ShortageNonNegative ==
    (PositiveNeeds
        /\ OpsStarted = Cardinality({t \in Sessions : sess[t].op = "resolve_shortages"})) =>
            \A i \in DOMAIN shortage : shortage[i].qty >= 0

\* -------------------------------------------------------------------------
\* Properties of the shelf moves (specification SpecMove)
\* -------------------------------------------------------------------------
\* C29  Shelf-to-shelf conservation: a transfer of quantity q that completed
\* took q off the source location with its write there and put q on the
\* target location with its write there, so the total of the item on the
\* shelves is unchanged, also when two sessions transfer or edit the item
\* concurrently.
C29_ShelfToShelf ==
    \A s \in Sessions :
        (sess[s].op = "shelf_to_shelf" /\ Returned(s)) =>
            /\ sess[s].shelfDec = sess[s].qty
            /\ sess[s].tgtInc = sess[s].qty

ReturnOps == {"shelf_to_inventory", "shelf_management"}

\* C30  Shelf-to-inventory conservation: when a page moved stock from a shelf
\* back to inventory (Move to Inventory, or quantity 0 in shelf management),
\* the amount its shelf write took off the shelf equals the amount its
\* inventory write added to the return rows.
C30_ShelfToInventory ==
    \A s \in Sessions :
        (sess[s].op \in ReturnOps /\ Returned(s) /\ sess[s].qty > 0) =>
            sess[s].shelfDec = sess[s].invAdd

====
